---- MODULE Spec2Model ----
(***************************************************************************)
(* keras/layers/serialization.py: the per-thread table of deserializable   *)
(* layer objects (LOCAL.ALL_OBJECTS), its last-build marker                *)
(* (LOCAL.GENERATED_WITH_V2), populate_deserializable_objects(),           *)
(* serialize() and deserialize().                                          *)
(*                                                                         *)
(* A call of populate_deserializable_objects is a sequence of steps, cut   *)
(* exactly where the code reads state that is shared between threads: the  *)
(* mode flag tf.__internal__.tf2.enabled() (lines 91, 97, 106, 135) and    *)
(* the late imports (lines 121-124, 136, 139).  Everything between two     *)
(* such reads touches only the calling thread's LOCAL and is one step.     *)
(***************************************************************************)
EXTENDS Naturals, Sequences, FiniteSets, TLC

VARIABLES
    flag,               \* tf.__internal__.tf2.enabled(): the global mode flag
    unavailable,        \* the late import that currently raises, or NoModule
    hasTable,           \* per LOCAL slot: hasattr(LOCAL, 'ALL_OBJECTS')
    ALL_OBJECTS,        \* per LOCAL slot: LOCAL.ALL_OBJECTS (name -> object)
    GENERATED_WITH_V2,  \* per LOCAL slot: LOCAL.GENERATED_WITH_V2
    pc,                 \* per thread: position in the running call
    call,               \* per thread: the function the thread is running
    result,             \* per thread: outcome of the last completed call
    entry,              \* per thread: LOCAL as it was when the call started
    steady,             \* per thread: flag unchanged since the call started
    rebuilt,            \* per thread: the call assigned a new dict (line 96)
    fresh,              \* per thread: a successful build ended the last
                        \*   building call, and the flag has not changed
                        \*   since that call started
    observed            \* the threads whose calls result, entry, steady
                        \*   and fresh record (history only: no step of
                        \*   the program reads them)

vars == <<flag, unavailable, hasTable, ALL_OBJECTS, GENERATED_WITH_V2,
          pc, call, result, entry, steady, rebuilt, fresh, observed>>

(***************************************************************************)
(* Threads and thread-local storage                                        *)
(***************************************************************************)
Threads == {"t1", "t2"}

\* Mutant of LocalOf: LOCAL is one plain object shared by all threads.
LocalShared(t) == "t1"

\* LOCAL = threading.local(): each thread reaches its own attribute slot.
LocalOf(t) == t

Slots == {LocalOf(t) : t \in Threads}

(***************************************************************************)
(* Objects, module namespaces                                              *)
(***************************************************************************)
\* An object importable from a module, identified by its qualified name.
Obj(m, n) == [module |-> m, name |-> n]

\* {} : the empty dict.
EmptyDict == [k \in {} |-> Obj("", "")]

\* d[k] = v
SetItem(d, k, v) == [x \in (DOMAIN d) \cup {k} |-> IF x = k THEN v ELSE d[x]]

ALL_MODULES ==
    << "base_layer", "input_layer", "advanced_activations", "convolutional",
       "convolutional_recurrent", "core", "cudnn_recurrent", "dense_attention",
       "embeddings", "einsum_dense", "local", "merge", "noise", "normalization",
       "pooling", "image_preprocessing", "preprocessing_integer_lookup_v1",
       "preprocessing_normalization_v1", "preprocessing_string_lookup_v1",
       "preprocessing_text_vectorization_v1", "recurrent", "wrappers",
       "hashing", "category_crossing", "category_encoding", "discretization",
       "multi_head_attention" >>

ALL_V2_MODULES ==
    << "rnn_cell_wrapper_v2", "normalization_v2", "recurrent_v2",
       "preprocessing_integer_lookup", "preprocessing_normalization",
       "preprocessing_string_lookup", "preprocessing_text_vectorization" >>

\* The merge functions injected by name at lines 143-150.
MergeFunctions ==
    {"add", "subtract", "multiply", "average", "maximum", "minimum",
     "concatenate", "dot"}

\* dir(module) with getattr: the attributes of each imported module that the
\* model follows (attribute name -> object).  A module's namespace also
\* holds what it imported by name (input_layer holds base_layer's Layer).
ModuleNamespace(m) ==
    CASE m = "base_layer" ->
           ("Layer" :> Obj("base_layer", "Layer"))
      [] m = "input_layer" ->
           ("InputLayer" :> Obj("input_layer", "InputLayer")) @@
           ("Input" :> Obj("input_layer", "Input")) @@
           ("Layer" :> Obj("base_layer", "Layer"))
      [] m = "core" ->
           ("Dense" :> Obj("core", "Dense"))
      [] m = "merge" ->
           ("Add" :> Obj("merge", "Add")) @@
           [f \in MergeFunctions |-> Obj("merge", f)]
      [] m = "normalization" ->
           ("BatchNormalization" :> Obj("normalization", "BatchNormalization"))
      [] m = "preprocessing_normalization_v1" ->
           ("Normalization" :> Obj("preprocessing_normalization_v1", "Normalization"))
      [] m = "recurrent" ->
           ("LSTM" :> Obj("recurrent", "LSTM"))
      [] m = "rnn_cell_wrapper_v2" ->
           ("DropoutWrapper" :> Obj("rnn_cell_wrapper_v2", "DropoutWrapper"))
      [] m = "normalization_v2" ->
           ("BatchNormalization" :> Obj("normalization_v2", "BatchNormalization"))
      [] m = "recurrent_v2" ->
           ("LSTM" :> Obj("recurrent_v2", "LSTM"))
      [] m = "preprocessing_normalization" ->
           ("Normalization" :> Obj("preprocessing_normalization", "Normalization"))
      [] OTHER -> EmptyDict

\* Module attributes that are functions, not classes.
FunctionObjects ==
    {Obj("input_layer", "Input")} \cup {Obj("merge", f) : f \in MergeFunctions}

\* obj_filter = lambda x: inspect.isclass(x) and issubclass(x, base_cls)
obj_filter(x) == x \notin FunctionObjects


\* generic_utils.populate_dict_with_module_objects(target_dict, modules,
\* obj_filter): for each module in order, for each attribute that passes the
\* filter, target_dict[name] = obj (a later module overwrites an earlier one).
RECURSIVE populate_dict_with_module_objects(_, _)
populate_dict_with_module_objects(target_dict, modules) ==
    IF modules = << >> THEN target_dict
    ELSE LET ns   == ModuleNamespace(Head(modules))
             kept == {n \in DOMAIN ns : obj_filter(ns[n])}
             d    == [x \in (DOMAIN target_dict) \cup kept |->
                        IF x \in kept THEN ns[x] ELSE target_dict[x]]
         IN  populate_dict_with_module_objects(d, Tail(modules))

(***************************************************************************)
(* The mode marker and the late imports                                    *)
(***************************************************************************)
NoneValue == "None"

\* A Python bool as stored in LOCAL.GENERATED_WITH_V2.
PyBool(b) == IF b THEN "True" ELSE "False"

Markers == {NoneValue, PyBool(TRUE), PyBool(FALSE)}

NoModule == "<none>"

\* The function-level imports of lines 121-124.
ModelImports ==
    {"keras.models", "keras.premade.linear", "keras.premade.wide_deep",
     "keras.feature_column.sequence_feature_column"}

\* The function-level import of line 136 (enabled) or line 139 (not enabled).
DenseFeaturesImport(enabled) ==
    IF enabled THEN "keras.feature_column.dense_features_v2"
               ELSE "keras.feature_column.dense_features"

LateImports == ModelImports \cup {DenseFeaturesImport(TRUE), DenseFeaturesImport(FALSE)}

(***************************************************************************)
(* The pieces of populate_deserializable_objects                           *)
(***************************************************************************)
\* Mutant of AlreadyGenerated: the recorded mode is not compared.
AlreadyGeneratedAnyMode(objs, gen, enabled) ==
    objs # EmptyDict

\* Mutant of AlreadyGenerated: the comparison is inverted.
AlreadyGeneratedInverted(objs, gen, enabled) ==
    objs # EmptyDict /\ gen # PyBool(enabled)

\* Mutant of AlreadyGenerated: the truth value of the dict is not tested.
AlreadyGeneratedWithoutEmptinessTest(objs, gen, enabled) ==
    gen = PyBool(enabled)

\* Line 91: LOCAL.ALL_OBJECTS and LOCAL.GENERATED_WITH_V2 == tf2.enabled()
AlreadyGenerated(objs, gen, enabled) ==
    objs # EmptyDict /\ gen = PyBool(enabled)

\* Mutant of PopulateModules: the V2 modules are inserted before the baseline
\* modules, which then overwrite them.
PopulateModulesOverridesFirst(objs, enabled) ==
    LET v2 == IF enabled
              THEN populate_dict_with_module_objects(objs, ALL_V2_MODULES)
              ELSE objs
    IN  populate_dict_with_module_objects(v2, ALL_MODULES)

\* Lines 99-110: the baseline modules, then the V2 modules when enabled.
PopulateModules(objs, enabled) ==
    LET base == populate_dict_with_module_objects(objs, ALL_MODULES)
    IN  IF enabled
        THEN populate_dict_with_module_objects(base, ALL_V2_MODULES)
        ELSE base

\* Mutant of AddAliases: the two providers are exchanged.
AddAliasesExchanged(objs) ==
    SetItem(SetItem(objs, "BatchNormalizationV1",
                    Obj("normalization_v2", "BatchNormalization")),
            "BatchNormalizationV2",
            Obj("normalization", "BatchNormalization"))

\* Lines 116-118: the backward-compatibility aliases.
AddAliases(objs) ==
    SetItem(SetItem(objs, "BatchNormalizationV1",
                    Obj("normalization", "BatchNormalization")),
            "BatchNormalizationV2",
            Obj("normalization_v2", "BatchNormalization"))

\* Lines 126-133: the names whose providers are imported inside the function.
InjectModels(objs) ==
    LET a == SetItem(objs, "Input", Obj("input_layer", "Input"))
        b == SetItem(a, "InputSpec", Obj("input_spec", "InputSpec"))
        c == SetItem(b, "Functional", Obj("models", "Functional"))
        d == SetItem(c, "Model", Obj("models", "Model"))
        e == SetItem(d, "SequenceFeatures",
                     Obj("sequence_feature_column", "SequenceFeatures"))
        f == SetItem(e, "Sequential", Obj("models", "Sequential"))
        g == SetItem(f, "LinearModel", Obj("linear", "LinearModel"))
    IN  SetItem(g, "WideDeepModel", Obj("wide_deep", "WideDeepModel"))

\* Mutant of InjectDenseFeatures: the else branch of line 138 is missing.
InjectDenseFeaturesOnlyWhenEnabled(objs, enabled) ==
    IF enabled
    THEN SetItem(objs, "DenseFeatures", Obj("dense_features_v2", "DenseFeatures"))
    ELSE objs

\* Lines 135-140: DenseFeatures from dense_features_v2 or dense_features.
InjectDenseFeatures(objs, enabled) ==
    SetItem(objs, "DenseFeatures",
            IF enabled THEN Obj("dense_features_v2", "DenseFeatures")
                       ELSE Obj("dense_features", "DenseFeatures"))

\* Lines 143-150: the function versions of the merge layers.
InjectMergeFunctions(objs) ==
    [x \in (DOMAIN objs) \cup MergeFunctions |->
        IF x \in MergeFunctions THEN Obj("merge", x) ELSE objs[x]]

\* Lines 96-150 run without failure with every read of the flag returning m.
FullBuild(m) ==
    InjectMergeFunctions(
        InjectDenseFeatures(
            InjectModels(AddAliases(PopulateModules(EmptyDict, m))), m))


(***************************************************************************)
(* Calls, arguments, outcomes                                              *)
(***************************************************************************)
NoObj == Obj("", "")

\* class_name of the config dict handed to deserialize.
ClassNames == {"Dense", "Model", "NoSuchType"}

\* custom_objects handed to deserialize (None is the empty mapping).
CustomObjectChoices == {EmptyDict, ("Dense" :> Obj("custom", "Dense"))}

\* Layer instances handed to serialize, each given by its class.
LayerChoices == {Obj("core", "Dense"), Obj("custom", "Dense")}

NoCall == "none"

NoResult == [op |-> "none", kind |-> "none", class_name |-> "",
             custom_objects |-> EmptyDict, cls |-> NoObj, named |-> ""]

NoEntry == [has |-> FALSE, objs |-> EmptyDict, gen |-> "unset", fresh |-> FALSE]

\* The outcome of a completed call, recorded for the observed threads.
Outcome(t, kind, class_name, custom_objects, cls, named) ==
    IF t \in observed
    THEN [op |-> call[t], kind |-> kind, class_name |-> class_name,
          custom_objects |-> custom_objects, cls |-> cls, named |-> named]
    ELSE NoResult

\* generic_utils.deserialize_keras_object(config, module_objects,
\* custom_objects, printable_module_name): custom_objects is looked up first,
\* then module_objects; a name in neither is an error that names it
\* ("Unknown layer: <class_name>"), and nothing is constructed.
deserialize_keras_object(class_name, module_objects, custom_objects) ==
    IF class_name \in DOMAIN custom_objects
    THEN [kind |-> "object", cls |-> custom_objects[class_name], named |-> ""]
    ELSE IF class_name \in DOMAIN module_objects
    THEN [kind |-> "object", cls |-> module_objects[class_name], named |-> ""]
    ELSE [kind |-> "unknown", cls |-> NoObj, named |-> class_name]

\* generic_utils.serialize_keras_object(layer): the config's class_name is
\* the name of the instance's class.
serialize_keras_object(layer) == layer.name

\* Mutant of DeserializeLookup: custom_objects is not passed on.
DeserializeLookupWithoutCustom(t, class_name, custom_objects) ==
    deserialize_keras_object(class_name, ALL_OBJECTS[LocalOf(t)], EmptyDict)

\* Mutant of DeserializeLookup: module_objects is a table built apart from
\* the calling thread's LOCAL.ALL_OBJECTS.
DeserializeLookupOtherTable(t, class_name, custom_objects) ==
    deserialize_keras_object(class_name, FullBuild(flag), custom_objects)

\* Lines 171-175: the lookup deserialize hands to deserialize_keras_object.
DeserializeLookup(t, class_name, custom_objects) ==
    deserialize_keras_object(class_name, ALL_OBJECTS[LocalOf(t)], custom_objects)

TypeOK ==
    /\ flag \in BOOLEAN
    /\ unavailable \in LateImports \cup {NoModule}
    /\ hasTable \in [Slots -> BOOLEAN]
    /\ DOMAIN ALL_OBJECTS = Slots
    /\ GENERATED_WITH_V2 \in [Slots -> Markers]
    /\ pc \in [Threads -> {"idle", "enter", "guard", "reset", "modules",
                           "imports", "dense", "lookup"}]
    /\ steady \in [Threads -> BOOLEAN]
    /\ rebuilt \in [Threads -> BOOLEAN]
    /\ fresh \in [Threads -> BOOLEAN]
    /\ observed \subseteq Threads

\* The state after import of the module; no thread has called anything.
Start ==
    /\ flag \in BOOLEAN
    /\ unavailable = NoModule
    /\ hasTable = [s \in Slots |-> FALSE]
    /\ ALL_OBJECTS = [s \in Slots |-> EmptyDict]
    /\ GENERATED_WITH_V2 = [s \in Slots |-> NoneValue]
    /\ pc = [t \in Threads |-> "idle"]
    /\ call = [t \in Threads |-> NoCall]
    /\ result = [t \in Threads |-> NoResult]
    /\ entry = [t \in Threads |-> NoEntry]
    /\ steady = [t \in Threads |-> TRUE]
    /\ rebuilt = [t \in Threads |-> FALSE]
    /\ fresh = [t \in Threads |-> FALSE]

\* One thread, any of them, is followed through its calls.
Init ==
    /\ Start
    /\ \E t \in Threads : observed = {t}

\* Every thread runs; no history is recorded.
InitThreads ==
    /\ Start
    /\ observed = {}

\* The dicts line 91 is evaluated on as inputs: empty, or a finished build.
GuardInputTables == {EmptyDict, FullBuild(TRUE), FullBuild(FALSE)}

\* Line 91 as a function of its three inputs: the followed thread starts
\* with no LOCAL attributes, or with LOCAL.ALL_OBJECTS and
\* LOCAL.GENERATED_WITH_V2 holding any dict and any marker value.  (The calls
\* of this file alone never leave an empty dict with a marker other than
\* None; LOCAL is a module attribute and line 91 tests the dict itself.)
InitGuard ==
    /\ flag \in BOOLEAN
    /\ unavailable = NoModule
    /\ \E t \in Threads :
         /\ observed = {t}
         /\ \/ /\ hasTable = [s \in Slots |-> FALSE]
               /\ ALL_OBJECTS = [s \in Slots |-> EmptyDict]
               /\ GENERATED_WITH_V2 = [s \in Slots |-> NoneValue]
            \/ \E objs \in GuardInputTables, gen \in Markers :
                  /\ hasTable = [s \in Slots |-> s = LocalOf(t)]
                  /\ ALL_OBJECTS =
                         [s \in Slots |-> IF s = LocalOf(t) THEN objs ELSE EmptyDict]
                  /\ GENERATED_WITH_V2 =
                         [s \in Slots |-> IF s = LocalOf(t) THEN gen ELSE NoneValue]
    /\ pc = [t \in Threads |-> "idle"]
    /\ call = [t \in Threads |-> NoCall]
    /\ result = [t \in Threads |-> NoResult]
    /\ entry = [t \in Threads |-> NoEntry]
    /\ steady = [t \in Threads |-> TRUE]
    /\ rebuilt = [t \in Threads |-> FALSE]
    /\ fresh = [t \in Threads |-> FALSE]

(***************************************************************************)
(* The environment: the mode flag and the importability of late modules    *)
(***************************************************************************)
\* Some thread enables or disables V2 behaviour.
SetFlag ==
    /\ flag' = ~flag
    /\ steady' = [t \in Threads |-> t \notin observed \/ pc[t] = "idle"]
    /\ fresh' = [t \in Threads |-> FALSE]
    /\ UNCHANGED <<unavailable, hasTable, ALL_OBJECTS, GENERATED_WITH_V2,
                   pc, call, result, entry, rebuilt, observed>>

\* A late import starts or stops raising.
SetUnavailable ==
    /\ \E m \in (LateImports \cup {NoModule}) \ {unavailable} : unavailable' = m
    /\ UNCHANGED <<flag, hasTable, ALL_OBJECTS, GENERATED_WITH_V2,
                   pc, call, result, entry, steady, rebuilt, fresh, observed>>

(***************************************************************************)
(* Entering and leaving a call                                             *)
(***************************************************************************)
Snapshot(t) ==
    [has   |-> hasTable[LocalOf(t)],
     objs  |-> ALL_OBJECTS[LocalOf(t)],
     gen   |-> GENERATED_WITH_V2[LocalOf(t)],
     fresh |-> fresh[t]]

Begin(t, op) ==
    /\ pc[t] = "idle"
    /\ pc' = [pc EXCEPT ![t] = "enter"]
    /\ call' = [call EXCEPT ![t] = op]
    /\ result' = [result EXCEPT ![t] = NoResult]
    /\ entry' = [entry EXCEPT ![t] = IF t \in observed THEN Snapshot(t) ELSE @]
    /\ steady' = [steady EXCEPT ![t] = TRUE]
    /\ rebuilt' = [rebuilt EXCEPT ![t] = FALSE]
    /\ UNCHANGED <<flag, unavailable, hasTable, ALL_OBJECTS,
                   GENERATED_WITH_V2, fresh, observed>>

\* A direct call of populate_deserializable_objects().
CallPopulate(t) ==
    Begin(t, "populate")

\* Mutant of CallDeserialize: line 170 is missing, the lookup runs at once.
CallDeserializeWithoutPopulate(t) ==
    /\ pc[t] = "idle"
    /\ pc' = [pc EXCEPT ![t] = "lookup"]
    /\ call' = [call EXCEPT ![t] = "deserialize"]
    /\ result' = [result EXCEPT ![t] = NoResult]
    /\ entry' = [entry EXCEPT ![t] = IF t \in observed THEN Snapshot(t) ELSE @]
    /\ steady' = [steady EXCEPT ![t] = TRUE]
    /\ rebuilt' = [rebuilt EXCEPT ![t] = FALSE]
    /\ UNCHANGED <<flag, unavailable, hasTable, ALL_OBJECTS,
                   GENERATED_WITH_V2, fresh, observed>>

\* deserialize(config, custom_objects), line 170: it starts by populating.
\* Its arguments are first read at line 171, where D_lookup draws them.
CallDeserialize(t) ==
    Begin(t, "deserialize")

\* populate_deserializable_objects returns: to its caller, or to line 171.
ReturnFromPopulate(t) ==
    IF call[t] = "deserialize"
    THEN /\ pc' = [pc EXCEPT ![t] = "lookup"]
         /\ UNCHANGED <<call, result, steady>>
    ELSE /\ pc' = [pc EXCEPT ![t] = "idle"]
         /\ result' = [result EXCEPT ![t] =
                           Outcome(t, "returned", "", EmptyDict, NoObj, "")]
         /\ call' = [call EXCEPT ![t] = NoCall]
         /\ steady' = [steady EXCEPT ![t] = TRUE]

\* A late import raises: the exception leaves populate and deserialize.
RaiseImportError(t) ==
    /\ pc' = [pc EXCEPT ![t] = "idle"]
    /\ result' = [result EXCEPT ![t] =
                      Outcome(t, "ImportError", "", EmptyDict, NoObj, "")]
    /\ call' = [call EXCEPT ![t] = NoCall]
    /\ steady' = [steady EXCEPT ![t] = TRUE]
    /\ fresh' = [fresh EXCEPT ![t] = FALSE]
    /\ UNCHANGED <<hasTable, ALL_OBJECTS, GENERATED_WITH_V2>>

(***************************************************************************)
(* populate_deserializable_objects, step by step                           *)
(***************************************************************************)
\* Mutant of P_create: the marker of a new table starts as the current mode.
P_createMarkerFromFlag(t) ==
    /\ pc[t] = "enter"
    /\ IF ~hasTable[LocalOf(t)]
       THEN /\ hasTable' = [hasTable EXCEPT ![LocalOf(t)] = TRUE]
            /\ ALL_OBJECTS' = [ALL_OBJECTS EXCEPT ![LocalOf(t)] = EmptyDict]
            /\ GENERATED_WITH_V2' =
                   [GENERATED_WITH_V2 EXCEPT ![LocalOf(t)] = PyBool(flag)]
       ELSE UNCHANGED <<hasTable, ALL_OBJECTS, GENERATED_WITH_V2>>
    /\ pc' = [pc EXCEPT ![t] = "guard"]
    /\ UNCHANGED <<flag, unavailable, call, result, entry, steady, rebuilt,
                   fresh, observed>>

\* Lines 87-89.
P_create(t) ==
    /\ pc[t] = "enter"
    /\ IF ~hasTable[LocalOf(t)]
       THEN /\ hasTable' = [hasTable EXCEPT ![LocalOf(t)] = TRUE]
            /\ ALL_OBJECTS' = [ALL_OBJECTS EXCEPT ![LocalOf(t)] = EmptyDict]
            /\ GENERATED_WITH_V2' =
                   [GENERATED_WITH_V2 EXCEPT ![LocalOf(t)] = NoneValue]
       ELSE UNCHANGED <<hasTable, ALL_OBJECTS, GENERATED_WITH_V2>>
    /\ pc' = [pc EXCEPT ![t] = "guard"]
    /\ UNCHANGED <<flag, unavailable, call, result, entry, steady, rebuilt,
                   fresh, observed>>

\* Lines 91-94.
P_guard(t) ==
    /\ pc[t] = "guard"
    /\ IF AlreadyGenerated(ALL_OBJECTS[LocalOf(t)],
                           GENERATED_WITH_V2[LocalOf(t)], flag)
       THEN ReturnFromPopulate(t)
       ELSE /\ pc' = [pc EXCEPT ![t] = "reset"]
            /\ UNCHANGED <<call, result, steady>>
    /\ UNCHANGED <<flag, unavailable, hasTable, ALL_OBJECTS,
                   GENERATED_WITH_V2, entry, rebuilt, fresh, observed>>

\* Mutant of P_reset: the marker is updated and the old dict is kept, to be
\* filled again in place.
P_resetKeepingTable(t) ==
    /\ pc[t] = "reset"
    /\ GENERATED_WITH_V2' =
           [GENERATED_WITH_V2 EXCEPT ![LocalOf(t)] = PyBool(flag)]
    /\ pc' = [pc EXCEPT ![t] = "modules"]
    /\ rebuilt' = [rebuilt EXCEPT ![t] = t \in observed]
    /\ UNCHANGED <<flag, unavailable, hasTable, ALL_OBJECTS, call, result,
                   entry, steady, fresh, observed>>

\* Lines 96-97.
P_reset(t) ==
    /\ pc[t] = "reset"
    /\ ALL_OBJECTS' = [ALL_OBJECTS EXCEPT ![LocalOf(t)] = EmptyDict]
    /\ GENERATED_WITH_V2' =
           [GENERATED_WITH_V2 EXCEPT ![LocalOf(t)] = PyBool(flag)]
    /\ pc' = [pc EXCEPT ![t] = "modules"]
    /\ rebuilt' = [rebuilt EXCEPT ![t] = t \in observed]
    /\ UNCHANGED <<flag, unavailable, hasTable, call, result, entry,
                   steady, fresh, observed>>

\* Lines 99-118.
P_modules(t) ==
    /\ pc[t] = "modules"
    /\ ALL_OBJECTS' =
           [ALL_OBJECTS EXCEPT ![LocalOf(t)] =
               AddAliases(PopulateModules(ALL_OBJECTS[LocalOf(t)], flag))]
    /\ pc' = [pc EXCEPT ![t] = "imports"]
    /\ UNCHANGED <<flag, unavailable, hasTable, GENERATED_WITH_V2, call,
                   result, entry, steady, rebuilt, fresh, observed>>

\* Lines 121-133.
P_imports(t) ==
    /\ pc[t] = "imports"
    /\ IF unavailable \in ModelImports
       THEN RaiseImportError(t)
       ELSE /\ ALL_OBJECTS' =
                   [ALL_OBJECTS EXCEPT ![LocalOf(t)] =
                       InjectModels(ALL_OBJECTS[LocalOf(t)])]
            /\ pc' = [pc EXCEPT ![t] = "dense"]
            /\ UNCHANGED <<hasTable, GENERATED_WITH_V2, call, result,
                           steady, fresh>>
    /\ UNCHANGED <<flag, unavailable, entry, rebuilt, observed>>

\* Lines 135-150, and the return.
P_dense(t) ==
    /\ pc[t] = "dense"
    /\ IF unavailable = DenseFeaturesImport(flag)
       THEN RaiseImportError(t)
       ELSE /\ ALL_OBJECTS' =
                   [ALL_OBJECTS EXCEPT ![LocalOf(t)] =
                       InjectMergeFunctions(
                           InjectDenseFeatures(ALL_OBJECTS[LocalOf(t)], flag))]
            /\ fresh' = [fresh EXCEPT ![t] = t \in observed /\ steady[t]]
            /\ ReturnFromPopulate(t)
            /\ UNCHANGED <<hasTable, GENERATED_WITH_V2>>
    /\ UNCHANGED <<flag, unavailable, entry, rebuilt, observed>>

(***************************************************************************)
(* deserialize after populate returned, and serialize                      *)
(***************************************************************************)
\* Mutant of D_lookup: the resolved custom objects are cached in the table.
D_lookupCaching(t) ==
    /\ pc[t] = "lookup"
    /\ \E cn \in ClassNames, co \in CustomObjectChoices :
         LET r == DeserializeLookup(t, cn, co)
         IN  /\ result' = [result EXCEPT ![t] =
                               Outcome(t, r.kind, cn, co, r.cls, r.named)]
             /\ ALL_OBJECTS' = [ALL_OBJECTS EXCEPT ![LocalOf(t)] = co @@ @]
    /\ pc' = [pc EXCEPT ![t] = "idle"]
    /\ call' = [call EXCEPT ![t] = NoCall]
    /\ steady' = [steady EXCEPT ![t] = TRUE]
    /\ UNCHANGED <<flag, unavailable, hasTable,
                   GENERATED_WITH_V2, entry, rebuilt, fresh, observed>>

\* Lines 171-175.
D_lookup(t) ==
    /\ pc[t] = "lookup"
    /\ \E cn \in ClassNames, co \in CustomObjectChoices :
         LET r == DeserializeLookup(t, cn, co)
         IN  result' = [result EXCEPT ![t] =
                           Outcome(t, r.kind, cn, co, r.cls, r.named)]
    /\ pc' = [pc EXCEPT ![t] = "idle"]
    /\ call' = [call EXCEPT ![t] = NoCall]
    /\ steady' = [steady EXCEPT ![t] = TRUE]
    /\ UNCHANGED <<flag, unavailable, hasTable, ALL_OBJECTS,
                   GENERATED_WITH_V2, entry, rebuilt, fresh, observed>>

\* Lines 153-155.
Serialize(t) ==
    /\ pc[t] = "idle"
    /\ \E layer \in LayerChoices :
         result' = [result EXCEPT ![t] =
                       IF t \in observed
                       THEN [NoResult EXCEPT
                                !.op = "serialize", !.kind = "config",
                                !.class_name = serialize_keras_object(layer)]
                       ELSE NoResult]
    /\ entry' = [entry EXCEPT ![t] = IF t \in observed THEN Snapshot(t) ELSE @]
    /\ rebuilt' = [rebuilt EXCEPT ![t] = FALSE]
    /\ UNCHANGED <<flag, unavailable, hasTable, ALL_OBJECTS,
                   GENERATED_WITH_V2, pc, call, steady, fresh, observed>>

\* A thread meets the other threads only through the flag and the import
\* system, which SetFlag and SetUnavailable change at any moment.
Next ==
    \/ SetFlag
    \/ SetUnavailable
    \/ \E t \in observed : CallPopulate(t)
    \/ \E t \in observed : CallDeserialize(t)
    \/ \E t \in observed : Serialize(t)
    \/ \E t \in observed : P_create(t)
    \/ \E t \in observed : P_guard(t)
    \/ \E t \in observed : P_reset(t)
    \/ \E t \in observed : P_modules(t)
    \/ \E t \in observed : P_imports(t)
    \/ \E t \in observed : P_dense(t)
    \/ \E t \in observed : D_lookup(t)

NextThreads ==
    \/ SetFlag
    \/ SetUnavailable
    \/ \E t \in Threads : CallPopulate(t)
    \/ \E t \in Threads : CallDeserialize(t)
    \/ \E t \in Threads : Serialize(t)
    \/ \E t \in Threads : P_create(t)
    \/ \E t \in Threads : P_guard(t)
    \/ \E t \in Threads : P_reset(t)
    \/ \E t \in Threads : P_modules(t)
    \/ \E t \in Threads : P_imports(t)
    \/ \E t \in Threads : P_dense(t)
    \/ \E t \in Threads : D_lookup(t)

\* One thread against its environment, with its history recorded.
Spec == Init /\ [][Next]_vars

\* All threads interleaved.
SpecThreads == InitThreads /\ [][NextThreads]_vars

\* One thread against its environment, started on any input of line 91.
SpecGuard == InitGuard /\ [][Next]_vars

\* A late import starts or stops raising while the followed thread is
\* between two calls: what a call finds importable at its start, it finds
\* importable to its end.
SetUnavailableBetweenCalls ==
    /\ \A t \in observed : pc[t] = "idle"
    /\ SetUnavailable

NextBetweenCalls ==
    \/ SetFlag
    \/ SetUnavailableBetweenCalls
    \/ \E t \in observed : CallPopulate(t)
    \/ \E t \in observed : CallDeserialize(t)
    \/ \E t \in observed : Serialize(t)
    \/ \E t \in observed : P_create(t)
    \/ \E t \in observed : P_guard(t)
    \/ \E t \in observed : P_reset(t)
    \/ \E t \in observed : P_modules(t)
    \/ \E t \in observed : P_imports(t)
    \/ \E t \in observed : P_dense(t)
    \/ \E t \in observed : D_lookup(t)

\* One thread, with the import system changing only between its calls.
SpecBetweenCalls == Init /\ [][NextBetweenCalls]_vars

\* Both threads are followed through their calls.
InitPair ==
    /\ Start
    /\ observed = Threads

\* The flag changes while no thread is inside a call: every build runs
\* under one mode value.
SetFlagBetweenCalls ==
    /\ \A t \in Threads : pc[t] = "idle"
    /\ SetFlag

\* Two threads that call populate_deserializable_objects, every late import
\* succeeding.
NextPair ==
    \/ SetFlagBetweenCalls
    \/ \E t \in Threads : CallPopulate(t)
    \/ \E t \in Threads : P_create(t)
    \/ \E t \in Threads : P_guard(t)
    \/ \E t \in Threads : P_reset(t)
    \/ \E t \in Threads : P_modules(t)
    \/ \E t \in Threads : P_imports(t)
    \/ \E t \in Threads : P_dense(t)

SpecPair == InitPair /\ [][NextPair]_vars

(***************************************************************************)
(* Vocabulary of the properties                                            *)
(***************************************************************************)
\* LOCAL.ALL_OBJECTS and LOCAL.GENERATED_WITH_V2 as thread t reads them.
Table(t) == ALL_OBJECTS[LocalOf(t)]

Marker(t) == GENERATED_WITH_V2[LocalOf(t)]

\* populate_deserializable_objects is not executing in thread t.
Observable(t) == pc[t] \in {"idle", "lookup"}

\* The last populate_deserializable_objects call of t returned normally.
ReturnedNormally(t) ==
    \/ pc[t] = "lookup"
    \/ pc[t] = "idle" /\ result[t].kind \in {"returned", "object", "unknown"}

\* objs has every key of a full build: modules, aliases, injected names and
\* merge functions.
IsCompleteBuild(objs) ==
    \E m \in BOOLEAN : DOMAIN objs = DOMAIN FullBuild(m)

\* What the baseline modules alone, and the V2 modules alone, contribute.
BaselineObjects == populate_dict_with_module_objects(EmptyDict, ALL_MODULES)

V2Objects == populate_dict_with_module_objects(EmptyDict, ALL_V2_MODULES)

\* The names present in both ALL_MODULES and ALL_V2_MODULES.
SharedNames == (DOMAIN BaselineObjects) \cap (DOMAIN V2Objects)

(***************************************************************************)
(* C1  At every point where populate_deserializable_objects is not         *)
(* executing in a thread, also after it aborted with an exception, the     *)
(* thread's table is empty or has the complete set of entries of a full    *)
(* build.                                                                  *)
(* Refuted: an import that raises at lines 121-124 leaves the table with   *)
(* the module entries and the aliases only.                                *)
(***************************************************************************)
C1_NoPartialTableObservable ==
    \A t \in observed :
        Observable(t) =>
            \/ Table(t) = EmptyDict
            \/ IsCompleteBuild(Table(t))

(***************************************************************************)
(* C2  Whenever populate_deserializable_objects returns normally, the      *)
(* table equals the from-scratch build for the mode recorded in            *)
(* LOCAL.GENERATED_WITH_V2, whatever another thread did to the flag        *)
(* during the call.                                                        *)
(* Refuted: the flag is read again at lines 97, 106 and 135.               *)
(***************************************************************************)
C2_TableIsBuildOfRecordedMode ==
    \A t \in observed :
        ReturnedNormally(t) =>
            /\ Marker(t) \in {PyBool(TRUE), PyBool(FALSE)}
            /\ Table(t) = FullBuild(Marker(t) = PyBool(TRUE))

(***************************************************************************)
(* C3  If a build fails, the call aborts and the thread's table and marker *)
(* are exactly as they were before the call.                               *)
(* Refuted: lines 96-97 replace both before anything can fail.             *)
(***************************************************************************)
C3_FailedBuildLeavesTableAndMarker ==
    \A t \in observed :
        (pc[t] = "idle" /\ result[t].kind = "ImportError") =>
            /\ Table(t) = entry[t].objs
            /\ Marker(t) = entry[t].gen

(***************************************************************************)
(* C4  Within one thread, after a successful build under mode m, once the  *)
(* flag is not-m the next deserialize call rebuilds the table in its       *)
(* populate call: when that call has returned, every name present in both  *)
(* ALL_MODULES and ALL_V2_MODULES maps to the V2 provider if the flag is   *)
(* true and to the baseline provider if it is false, and the marker equals *)
(* the flag.  (The flag keeps its new value while the call runs.)          *)
(***************************************************************************)
C4_NextDeserializeReflectsNewMode ==
    \A t \in observed :
        ( /\ pc[t] = "lookup"
          /\ steady[t]
          /\ entry[t].gen = PyBool(~flag)
          /\ entry[t].objs = FullBuild(~flag) )
        =>
        ( /\ rebuilt[t]
          /\ Marker(t) = PyBool(flag)
          /\ \A n \in SharedNames :
                /\ n \in DOMAIN Table(t)
                /\ Table(t)[n] = IF flag THEN V2Objects[n] ELSE BaselineObjects[n] )

\* C4's case: populate has returned inside deserialize, the call began with
\* the complete table of the other mode, and some name is in both module sets.
C4_Witness ==
    \E t \in observed :
        /\ pc[t] = "lookup"
        /\ steady[t]
        /\ entry[t].gen = PyBool(~flag)
        /\ entry[t].objs = FullBuild(~flag)
        /\ SharedNames # {}
        /\ \E n \in SharedNames : V2Objects[n] # BaselineObjects[n]

(***************************************************************************)
(* C5  Population is idempotent: when populate_deserializable_objects has  *)
(* completed a successful build in a thread and is called again in that    *)
(* thread with the flag unchanged, the second call changes nothing: no new *)
(* dict is assigned, the table has the same keys mapping to the same       *)
(* providers, and the marker is the same.                                  *)
(***************************************************************************)
C5_SecondPopulateChangesNothing ==
    \A t \in observed :
        ( /\ ReturnedNormally(t)
          /\ entry[t].fresh
          /\ fresh[t] )
        =>
        ( /\ ~rebuilt[t]
          /\ Table(t) = entry[t].objs
          /\ Marker(t) = entry[t].gen )

\* C5's case: a direct second call has returned, the flag unchanged since the
\* call that built the table began.
C5_Witness ==
    \E t \in observed :
        /\ pc[t] = "idle"
        /\ result[t].op = "populate"
        /\ result[t].kind = "returned"
        /\ entry[t].fresh
        /\ fresh[t]
        /\ IsCompleteBuild(Table(t))

(***************************************************************************)
(* C6  (as claimed) After every successful build, in every mode,           *)
(* 'BatchNormalizationV1' maps to the same provider as                     *)
(* 'BatchNormalization' in the same table.                                 *)
(* Refuted: with the flag true line 107 overwrites 'BatchNormalization'    *)
(* with the normalization_v2 class, and line 116 still maps the alias to   *)
(* the normalization class.                                                *)
(***************************************************************************)
C6_AliasSameAsCanonical ==
    \A t \in observed :
        (Observable(t) /\ IsCompleteBuild(Table(t))) =>
            Table(t)["BatchNormalizationV1"] = Table(t)["BatchNormalization"]

(***************************************************************************)
(* C6  (amended) After every successful build, 'BatchNormalizationV1' maps *)
(* to the baseline normalization.BatchNormalization provider.  That is the *)
(* provider of 'BatchNormalization' when the build ran with the flag       *)
(* false; when it ran with the flag true, 'BatchNormalization' maps to the *)
(* normalization_v2 provider instead, the one 'BatchNormalizationV2' maps  *)
(* to, and differs from the alias.                                         *)
(***************************************************************************)
C6_AliasIsBaselineProvider ==
    \A t \in observed :
        (Observable(t) /\ IsCompleteBuild(Table(t))) =>
            /\ Table(t)["BatchNormalizationV1"] =
                   Obj("normalization", "BatchNormalization")
            /\ (fresh[t] /\ ~flag) =>
                   Table(t)["BatchNormalization"] = Table(t)["BatchNormalizationV1"]
            /\ (fresh[t] /\ flag) =>
                   /\ Table(t)["BatchNormalization"] = Table(t)["BatchNormalizationV2"]
                   /\ Table(t)["BatchNormalization"] # Table(t)["BatchNormalizationV1"]

\* C6's case: a build has succeeded with the flag true throughout.
C6_Witness ==
    \E t \in observed :
        /\ Observable(t)
        /\ IsCompleteBuild(Table(t))
        /\ fresh[t]
        /\ flag

(***************************************************************************)
(* C7  The table and the marker are private to each thread: in every       *)
(* interleaving of calls by several threads, a step taken by one thread    *)
(* never changes another thread's table, marker or the existence of its    *)
(* table, and a thread that looks a name up does so in a table that no     *)
(* other thread is in the middle of building.                              *)
(***************************************************************************)
C7_ThreadLocalIsolation ==
    [][ \A t \in Threads :
          (pc'[t] # pc[t]) =>
              \A u \in Threads \ {t} :
                  /\ hasTable'[LocalOf(u)] = hasTable[LocalOf(u)]
                  /\ ALL_OBJECTS'[LocalOf(u)] = ALL_OBJECTS[LocalOf(u)]
                  /\ GENERATED_WITH_V2'[LocalOf(u)] = GENERATED_WITH_V2[LocalOf(u)]
                  /\ (pc[t] = "lookup" /\ pc[u] \in {"modules", "imports", "dense"})
                         => LocalOf(u) # LocalOf(t)
      ]_vars

\* C7's case: one thread is at its lookup while another is in the middle of
\* a build, and their tables differ.
C7_Witness ==
    \E t \in Threads, u \in Threads :
        /\ t # u
        /\ pc[t] = "lookup"
        /\ pc[u] \in {"modules", "imports", "dense"}
        /\ IsCompleteBuild(Table(t))
        /\ Table(u) # Table(t)

(***************************************************************************)
(* C8  Override precedence: when the config's class name is a key of the   *)
(* caller's custom_objects (and of the built-in table), deserialize        *)
(* resolves it to the provider from custom_objects, never to the built-in  *)
(* one; the built-in table is consulted only for names absent from         *)
(* custom_objects.                                                         *)
(***************************************************************************)
C8_CustomObjectsTakePrecedence ==
    \A t \in observed :
        ( /\ pc[t] = "idle"
          /\ result[t].op = "deserialize"
          /\ result[t].kind \in {"object", "unknown"} )
        =>
        LET cn == result[t].class_name
            co == result[t].custom_objects
        IN  /\ cn \in DOMAIN co =>
                  /\ result[t].kind = "object"
                  /\ result[t].cls = co[cn]
            /\ (cn \notin DOMAIN co /\ result[t].kind = "object") =>
                  /\ cn \in DOMAIN Table(t)
                  /\ result[t].cls = Table(t)[cn]

\* C8's case: the name is in custom_objects and in the table, with different
\* providers, and deserialize has resolved it.
C8_Witness ==
    \E t \in observed :
        /\ pc[t] = "idle"
        /\ result[t].op = "deserialize"
        /\ result[t].kind = "object"
        /\ result[t].class_name \in DOMAIN result[t].custom_objects
        /\ result[t].class_name \in DOMAIN Table(t)
        /\ Table(t)[result[t].class_name] #
               result[t].custom_objects[result[t].class_name]

(***************************************************************************)
(* C9  Unknown tag: when the config's class name is a key of neither       *)
(* custom_objects nor the thread's table, deserialize ends in the unknown- *)
(* name error that names the class name, constructs nothing, substitutes   *)
(* no other provider, and leaves the table and the marker as the populate  *)
(* call left them.                                                         *)
(***************************************************************************)
C9_UnknownNameIsAnError ==
    [][ \A t \in observed :
          ( /\ pc[t] = "lookup"
            /\ pc'[t] = "idle"
            /\ result'[t].class_name \notin DOMAIN result'[t].custom_objects
            /\ result'[t].class_name \notin DOMAIN Table(t) )
          =>
          ( /\ result'[t].kind = "unknown"
            /\ result'[t].named = result'[t].class_name
            /\ result'[t].cls = NoObj
            /\ hasTable'[LocalOf(t)] = hasTable[LocalOf(t)]
            /\ ALL_OBJECTS'[LocalOf(t)] = ALL_OBJECTS[LocalOf(t)]
            /\ GENERATED_WITH_V2'[LocalOf(t)] = GENERATED_WITH_V2[LocalOf(t)] )
      ]_vars

\* C9's case: deserialize has ended with the unknown-name error, for a name
\* in neither mapping, against a fully built table.
C9_Witness ==
    \E t \in observed :
        /\ pc[t] = "idle"
        /\ result[t].op = "deserialize"
        /\ result[t].kind = "unknown"
        /\ result[t].class_name \notin DOMAIN result[t].custom_objects
        /\ result[t].class_name \notin DOMAIN Table(t)
        /\ IsCompleteBuild(Table(t))

(***************************************************************************)
(* C10  Mutation discipline: the table and the marker change only in the   *)
(* build of populate_deserializable_objects (lines 96-150), run by the     *)
(* owning thread, and a build starts by replacing the table wholesale;     *)
(* serialize, the lookup part of deserialize and the fast path leave both  *)
(* unchanged, so the table is constant between two builds.                 *)
(***************************************************************************)
C10_OnlyBuildsChangeTheTable ==
    [][ \A t \in observed :
          LET changed ==
                  \/ ALL_OBJECTS'[LocalOf(t)] # ALL_OBJECTS[LocalOf(t)]
                  \/ GENERATED_WITH_V2'[LocalOf(t)] # GENERATED_WITH_V2[LocalOf(t)]
          IN  /\ changed => pc[t] \in {"reset", "modules", "imports", "dense"}
              /\ (changed /\ pc[t] = "reset") =>
                     ALL_OBJECTS'[LocalOf(t)] = EmptyDict
              /\ (changed /\ pc[t] # "reset") => rebuilt[t]
      ]_vars

\* C10's case: after a build, serialize and deserialize have both run and
\* the table still is what it was when the last call started.
C10_Witness ==
    \E t \in observed :
        /\ pc[t] = "idle"
        /\ result[t].op = "serialize"
        /\ IsCompleteBuild(Table(t))
        /\ entry[t].objs = Table(t)

InjectedNames ==
    {"Input", "InputSpec", "Functional", "Model", "SequenceFeatures",
     "Sequential", "LinearModel", "WideDeepModel", "DenseFeatures"}
        \cup MergeFunctions

InjectedProvider(n, m) ==
    CASE n = "Input"            -> Obj("input_layer", "Input")
      [] n = "InputSpec"        -> Obj("input_spec", "InputSpec")
      [] n = "Functional"       -> Obj("models", "Functional")
      [] n = "Model"            -> Obj("models", "Model")
      [] n = "SequenceFeatures" -> Obj("sequence_feature_column", "SequenceFeatures")
      [] n = "Sequential"       -> Obj("models", "Sequential")
      [] n = "LinearModel"      -> Obj("linear", "LinearModel")
      [] n = "WideDeepModel"    -> Obj("wide_deep", "WideDeepModel")
      [] n = "DenseFeatures"    -> IF m THEN Obj("dense_features_v2", "DenseFeatures")
                                        ELSE Obj("dense_features", "DenseFeatures")
      [] OTHER                  -> Obj("merge", n)

\* The names assigned at lines 116-118 and the objects assigned to them.
AliasNames == {"BatchNormalizationV1", "BatchNormalizationV2"}

AliasProvider(n) ==
    IF n = "BatchNormalizationV1"
    THEN Obj("normalization", "BatchNormalization")
    ELSE Obj("normalization_v2", "BatchNormalization")

\* The positions in a module tuple whose module holds n as a layer class.
Defining(modules, n) ==
    {i \in DOMAIN modules :
        /\ n \in DOMAIN ModuleNamespace(modules[i])
        /\ obj_filter(ModuleNamespace(modules[i])[n])}

\* The object n has in the last module of the tuple that holds it.
LastProvider(modules, n) ==
    LET i == CHOOSE j \in Defining(modules, n) :
                 \A k \in Defining(modules, n) : k <= j
    IN  ModuleNamespace(modules[i])[n]

\* The names a module tuple contributes.
ModuleNames(modules) ==
    {n \in UNION {DOMAIN ModuleNamespace(modules[i]) : i \in DOMAIN modules} :
        Defining(modules, n) # {}}

\* The provider of n after a build under mode m, by precedence: injected
\* name, alias, V2 module (when m), later baseline module, earlier baseline
\* module.
PrecedenceProvider(n, m) ==
    IF n \in InjectedNames THEN InjectedProvider(n, m)
    ELSE IF n \in AliasNames THEN AliasProvider(n)
    ELSE IF m /\ Defining(ALL_V2_MODULES, n) # {}
         THEN LastProvider(ALL_V2_MODULES, n)
    ELSE LastProvider(ALL_MODULES, n)

PrecedenceNames(m) ==
    InjectedNames \cup AliasNames \cup ModuleNames(ALL_MODULES)
        \cup (IF m THEN ModuleNames(ALL_V2_MODULES) ELSE {})

(***************************************************************************)
(* C12  Build order and precedence: the table produced by a successful     *)
(* build under mode m equals the result of applying to an empty table, in  *)
(* this order, the filtered entries of ALL_MODULES in tuple order, those   *)
(* of ALL_V2_MODULES iff m, the two aliases, the injected names and merge  *)
(* functions, each insertion overwriting an earlier one of the same name;  *)
(* so each name has the provider of the highest-ranking source that holds  *)
(* it: injected name > alias > V2 module (when m) > later baseline module  *)
(* > earlier baseline module.                                              *)
(***************************************************************************)
C12_BuildOrderAndPrecedence ==
    \A t \in observed :
        (Observable(t) /\ fresh[t]) =>
            /\ Table(t) =
                   InjectMergeFunctions(
                       InjectDenseFeatures(
                           InjectModels(
                               AddAliases(
                                   IF flag
                                   THEN populate_dict_with_module_objects(
                                            populate_dict_with_module_objects(
                                                EmptyDict, ALL_MODULES),
                                            ALL_V2_MODULES)
                                   ELSE populate_dict_with_module_objects(
                                            EmptyDict, ALL_MODULES))),
                           flag))
            /\ DOMAIN Table(t) = PrecedenceNames(flag)
            /\ \A n \in DOMAIN Table(t) : Table(t)[n] = PrecedenceProvider(n, flag)

\* C12's case: a build under the flag true has succeeded, and a name held by
\* a baseline module and by a V2 module with different objects is in the
\* table, as is a name held by two baseline modules.
C12_Witness ==
    \E t \in observed :
        /\ Observable(t)
        /\ fresh[t]
        /\ flag
        /\ \E n \in DOMAIN Table(t) :
              /\ Defining(ALL_MODULES, n) # {}
              /\ Defining(ALL_V2_MODULES, n) # {}
              /\ LastProvider(ALL_MODULES, n) # LastProvider(ALL_V2_MODULES, n)
        /\ \E n \in DOMAIN Table(t) : Cardinality(Defining(ALL_MODULES, n)) > 1

\* The names only ALL_V2_MODULES contributes: absent from ALL_MODULES, the
\* aliases and the injected names.
V2OnlyNames ==
    ModuleNames(ALL_V2_MODULES)
        \ (ModuleNames(ALL_MODULES) \cup AliasNames \cup InjectedNames)

(***************************************************************************)
(* C13  Rebuild starts from scratch: after a rebuild triggered by the flag *)
(* changing from true to false, no entry of the previous build survives    *)
(* that the new mode's build does not itself insert; a name contributed    *)
(* only by ALL_V2_MODULES is not a key of the table after the rebuild      *)
(* under flag false.  (The flag stays false while the rebuild runs.)       *)
(***************************************************************************)
C13_RebuildStartsFromScratch ==
    \A t \in observed :
        ( /\ Observable(t)
          /\ rebuilt[t]
          /\ fresh[t]
          /\ ~flag
          /\ entry[t].gen = PyBool(TRUE) )
        =>
        ( /\ Marker(t) = PyBool(FALSE)
          /\ DOMAIN Table(t) = PrecedenceNames(FALSE)
          /\ \A n \in V2OnlyNames : n \notin DOMAIN Table(t) )

\* C13's case: the call began with the table of a build under true, which
\* holds a name of ALL_V2_MODULES only, and has rebuilt it under false.
C13_Witness ==
    \E t \in observed :
        /\ pc[t] = "idle"
        /\ result[t].kind = "returned"
        /\ rebuilt[t]
        /\ fresh[t]
        /\ ~flag
        /\ entry[t].gen = PyBool(TRUE)
        /\ entry[t].objs = FullBuild(TRUE)
        /\ V2OnlyNames # {}
        /\ \E n \in V2OnlyNames : n \in DOMAIN entry[t].objs

(***************************************************************************)
(* C14  Lazy per-thread creation: a thread that has not yet run line 87    *)
(* has no table and no marker; its first call creates an empty table with  *)
(* marker None and then goes on to the build (never the fast path),        *)
(* whatever the flag value and whatever tables other threads hold; a build *)
(* that no import stops ends with all the keys of a full build.            *)
(***************************************************************************)
C14_LazyCreationThenBuild ==
    [][ \A t \in Threads :
          /\ ~hasTable[LocalOf(t)] =>
                 /\ pc[t] \in {"idle", "enter"}
                 /\ Table(t) = EmptyDict
                 /\ Marker(t) = NoneValue
          /\ (hasTable'[LocalOf(t)] # hasTable[LocalOf(t)]) =>
                 /\ pc[t] = "enter"
                 /\ hasTable'[LocalOf(t)]
                 /\ ALL_OBJECTS'[LocalOf(t)] = EmptyDict
                 /\ GENERATED_WITH_V2'[LocalOf(t)] = NoneValue
          /\ (pc[t] = "enter" /\ pc'[t] # "enter") => hasTable'[LocalOf(t)]
          /\ (pc[t] = "guard" /\ pc'[t] # "guard" /\ Marker(t) = NoneValue) =>
                 /\ Table(t) = EmptyDict
                 /\ pc'[t] = "reset"
          /\ (pc[t] = "dense" /\ pc'[t] # "dense"
                 /\ ALL_OBJECTS'[LocalOf(t)] # ALL_OBJECTS[LocalOf(t)]) =>
                 /\ pc'[t] \in {"idle", "lookup"}
                 /\ IsCompleteBuild(ALL_OBJECTS'[LocalOf(t)])
      ]_vars

\* C14's case: a thread in its first call is past line 94, on its way to the
\* build, while another thread holds the finished table of the current mode.
C14_Witness ==
    \E t \in Threads, u \in Threads :
        /\ t # u
        /\ pc[t] = "reset"
        /\ Marker(t) = NoneValue
        /\ Table(t) = EmptyDict
        /\ pc[u] = "idle"
        /\ Table(u) = FullBuild(flag)
        /\ Marker(u) = PyBool(flag)

(***************************************************************************)
(* C15  Ordering inside deserialize: every deserialize call runs           *)
(* populate_deserializable_objects to completion before the name is looked *)
(* up, and the lookup uses the calling thread's table as that populate     *)
(* call left it; if populate raises, deserialize raises too, with no       *)
(* lookup and no construction.  So a lookup that follows a normal return   *)
(* of populate never runs against an uncreated or empty table.             *)
(***************************************************************************)
C15_PopulateBeforeLookup ==
    [][ \A t \in observed :
          \* the lookup is entered only from a return of populate (line 94
          \* or the end of line 150) inside deserialize
          /\ (pc'[t] = "lookup" /\ pc[t] # "lookup") =>
                 /\ call[t] = "deserialize"
                 /\ pc[t] \in {"guard", "dense"}
                 /\ hasTable'[LocalOf(t)]
                 /\ ALL_OBJECTS'[LocalOf(t)] # EmptyDict
          \* until the lookup runs, the table stays as populate left it
          /\ (pc[t] = "lookup" /\ pc'[t] = "lookup") =>
                 /\ ALL_OBJECTS'[LocalOf(t)] = ALL_OBJECTS[LocalOf(t)]
                 /\ GENERATED_WITH_V2'[LocalOf(t)] = GENERATED_WITH_V2[LocalOf(t)]
          \* the lookup reads that table
          /\ (pc[t] = "lookup" /\ pc'[t] # "lookup") =>
                 /\ pc'[t] = "idle"
                 /\ hasTable[LocalOf(t)]
                 /\ Table(t) # EmptyDict
                 /\ result'[t].op = "deserialize"
                 /\ result'[t].kind \in {"object", "unknown"}
                 /\ ( /\ result'[t].kind = "object"
                      /\ result'[t].class_name \notin DOMAIN result'[t].custom_objects )
                    => ( /\ result'[t].class_name \in DOMAIN Table(t)
                         /\ result'[t].cls = Table(t)[result'[t].class_name] )
                 /\ ( /\ result'[t].class_name \in DOMAIN Table(t)
                      /\ result'[t].class_name \notin DOMAIN result'[t].custom_objects )
                    => result'[t].kind = "object"
          \* a deserialize call ends at its lookup or in populate's exception
          /\ (call[t] = "deserialize" /\ pc[t] # "idle" /\ pc'[t] = "idle") =>
                 \/ pc[t] = "lookup"
                 \/ /\ pc[t] \in {"imports", "dense"}
                    /\ result'[t].op = "deserialize"
                    /\ result'[t].kind = "ImportError"
                    /\ result'[t].cls = NoObj
      ]_vars

\* C15's case: a deserialize call that began in a thread without a table has
\* found a built-in name in the table its own populate call built.
C15_Witness ==
    \E t \in observed :
        /\ pc[t] = "idle"
        /\ result[t].op = "deserialize"
        /\ result[t].kind = "object"
        /\ ~entry[t].has
        /\ rebuilt[t]
        /\ result[t].class_name \notin DOMAIN result[t].custom_objects
        /\ result[t].cls = Table(t)[result[t].class_name]

(***************************************************************************)
(* C16  Recovery after a failed build: if a build in a thread aborted with *)
(* an error and the cause is afterwards removed, a later                   *)
(* populate_deserializable_objects or deserialize call in that thread      *)
(* under the same flag value ends with a complete table for that mode.     *)
(* Refuted: the aborted build left a non-empty table and the marker of the *)
(* current mode, so line 91 sends every later call to the return of line   *)
(* 94 and the incomplete table stays.                                      *)
(***************************************************************************)
C16_LaterCallCompletesTheTable ==
    [][ \A t \in observed :
          ( /\ pc[t] \in {"guard", "dense"}
            /\ pc'[t] \in {"idle", "lookup"}
            /\ unavailable = NoModule
            /\ steady[t]
            /\ entry[t].has
            /\ entry[t].objs # EmptyDict
            /\ ~IsCompleteBuild(entry[t].objs)
            /\ entry[t].gen = PyBool(flag) )
          =>
          ALL_OBJECTS'[LocalOf(t)] = FullBuild(flag)
      ]_vars

(***************************************************************************)
(* C17  Build determinism: the contents of a table after a successful      *)
(* build depend only on the mode value of that build, not on history: two  *)
(* threads that each built under the same mode hold tables with equal keys *)
(* and identical providers, whatever each of them built before (a first    *)
(* build, or a rebuild after the flag was toggled away and back).          *)
(* (Every build runs under one mode value and no import fails.)            *)
(***************************************************************************)
C17_BuildDependsOnModeOnly ==
    \A t \in Threads, u \in Threads :
        ( /\ pc[t] = "idle"
          /\ pc[u] = "idle"
          /\ Marker(t) # NoneValue
          /\ Marker(t) = Marker(u) )
        =>
        ( /\ DOMAIN Table(t) = DOMAIN Table(u)
          /\ \A n \in DOMAIN Table(t) : Table(t)[n] = Table(u)[n] )

\* C17's case: one thread has rebuilt its table on coming back to a mode
\* from the other mode's table, the other thread holds the table of its
\* first and only build, and both were built under the same mode.
C17_Witness ==
    \E t \in Threads, u \in Threads :
        /\ t # u
        /\ pc[t] = "idle"
        /\ pc[u] = "idle"
        /\ Marker(t) # NoneValue
        /\ Marker(t) = Marker(u)
        /\ rebuilt[t]
        /\ entry[t].gen \notin {NoneValue, Marker(t)}
        /\ entry[t].objs # EmptyDict
        /\ result[u].kind = "returned"
        /\ ~entry[u].has
        /\ Marker(u) # PyBool(flag)

(***************************************************************************)
(* C18  The aliases are mode-independent: after every successful build,    *)
(* whether the flag is true or false, 'BatchNormalizationV1' maps to the   *)
(* normalization BatchNormalization and 'BatchNormalizationV2' to the      *)
(* normalization_v2 BatchNormalization, and the injected keys ('Input',    *)
(* 'InputSpec', 'Functional', 'Model', 'SequenceFeatures', 'Sequential',   *)
(* 'LinearModel', 'WideDeepModel', 'DenseFeatures', the eight merge        *)
(* functions) are the same in both modes, only the provider of             *)
(* 'DenseFeatures' differing by mode.                                      *)
(***************************************************************************)
C18_AliasesAndInjectedKeysInBothModes ==
    \A t \in observed :
        (Observable(t) /\ fresh[t]) =>
            /\ Table(t)["BatchNormalizationV1"] =
                   Obj("normalization", "BatchNormalization")
            /\ Table(t)["BatchNormalizationV2"] =
                   Obj("normalization_v2", "BatchNormalization")
            /\ InjectedNames \subseteq DOMAIN Table(t)
            /\ Cardinality(InjectedNames) = 17
            /\ \A n \in InjectedNames \ {"DenseFeatures"} :
                   /\ Table(t)[n] = InjectedProvider(n, TRUE)
                   /\ Table(t)[n] = InjectedProvider(n, FALSE)
            /\ Table(t)["DenseFeatures"] =
                   IF flag THEN Obj("dense_features_v2", "DenseFeatures")
                           ELSE Obj("dense_features", "DenseFeatures")
            \* against the table of the other mode, when the call began with it
            /\ (rebuilt[t] /\ entry[t].objs = FullBuild(~flag)) =>
                   /\ \A n \in AliasNames \cup (InjectedNames \ {"DenseFeatures"}) :
                          entry[t].objs[n] = Table(t)[n]
                   /\ entry[t].objs["DenseFeatures"] # Table(t)["DenseFeatures"]
                   /\ InjectedNames \cap DOMAIN entry[t].objs
                          = InjectedNames \cap DOMAIN Table(t)

\* C18's case: a build under one mode has succeeded in a thread that held
\* the finished table of the other mode when the call began.
C18_Witness ==
    \E t \in observed :
        /\ Observable(t)
        /\ fresh[t]
        /\ rebuilt[t]
        /\ entry[t].gen = PyBool(~flag)
        /\ entry[t].objs = FullBuild(~flag)
        /\ Table(t)["BatchNormalization"] # entry[t].objs["BatchNormalization"]

====
